---------------------------- MODULE Spec2Model ----------------------------
(***************************************************************************)
(* Model of genometreetk/ncbi.py: the three file readers                   *)
(* (read_genome_dir, read_refseq_metadata, read_type_strains) and the      *)
(* matcher get_type_strains.                                               *)
(*                                                                         *)
(* A Python str is a sequence of one-character strings, a dict is a TLA+   *)
(* function whose DOMAIN is its key set, a set is a set.  Each reader is   *)
(* a loop over the lines (rows) of a file; one action is one iteration of  *)
(* that loop, and the file's content is chosen line by line as it is read. *)
(***************************************************************************)
EXTENDS Integers, Sequences, FiniteSets, TLC

VARIABLES
    fn,                     \* the function being called
    pc,                     \* "loop", "returned" or "raised"
    raised,                 \* the exception that ended the call, "" when none
    handle,                 \* the opened file: "none", "open" or "closed"
    result,                 \* <<>> while nothing was returned, else <<value>>
    written,                \* the lines of the file read so far, as written
    eof,                    \* the last line read had no line terminator
    genome_dirs,            \* read_genome_dir
    keep_db_prefix,         \* read_refseq_metadata: its flag
    header,                 \* <<>> until the header row is read, then <<it>>
    rows_read,              \* the number of data rows read
    bHeader,
    genome_index, taxid_index, assembly_level_index, refseq_category_index,
    row,                    \* the row the csv reader yielded last
    assembly_accession,     \* the key of the last row that passed the filter
    accession_to_taxid, complete_genomes, representative_genomes,
    type_strain_taxids,     \* read_type_strains, get_type_strains
    genome_ids,             \* get_type_strains: its first argument
    pending,                \* the genome ids the loop has not visited yet
    type_strains

vars == <<fn, pc, raised, handle, result, written, eof, genome_dirs,
          keep_db_prefix, header, rows_read, bHeader, genome_index,
          taxid_index, assembly_level_index, refseq_category_index, row,
          assembly_accession, accession_to_taxid, complete_genomes,
          representative_genomes, type_strain_taxids, genome_ids, pending,
          type_strains>>

fileVars == <<written, eof>>
gdVars == <<genome_dirs>>
mdVars == <<keep_db_prefix, header, rows_read, bHeader, genome_index, taxid_index,
            assembly_level_index, refseq_category_index, row,
            assembly_accession, accession_to_taxid, complete_genomes,
            representative_genomes>>
gtVars == <<genome_ids, pending, type_strains>>

-----------------------------------------------------------------------------
(* Python str operations, on sequences of characters.                      *)

TAB == "\t"
NL == "\n"
SP == " "

\* The characters str.rstrip() with no argument removes.
Whitespace == {SP, TAB, NL, "\r"}

EmptyDict == [k \in {} |-> <<>>]

\* Variant of Put: an existing key keeps its value (first occurrence wins).
PutIfAbsent(d, k, v) ==
    [x \in DOMAIN d \cup {k} |-> IF x \in DOMAIN d THEN d[x] ELSE v]

\* d[k] = v
Put(d, k, v) == [x \in DOMAIN d \cup {k} |-> IF x = k THEN v ELSE d[x]]

\* Variant of RStrip: only the line terminator is removed.
RStripNewline(s) ==
    IF s # <<>> /\ s[Len(s)] = NL THEN SubSeq(s, 1, Len(s) - 1) ELSE s

RECURSIVE RStrip(_)
RStrip(s) ==
    IF s = <<>> THEN s
    ELSE IF s[Len(s)] \in Whitespace THEN RStrip(SubSeq(s, 1, Len(s) - 1))
    ELSE s

\* s.split(sep) for a one-character separator: always at least one field.
RECURSIVE Split(_, _)
Split(s, sep) ==
    IF \A i \in 1..Len(s) : s[i] # sep THEN <<s>>
    ELSE LET i == CHOOSE j \in 1..Len(s) :
                      s[j] = sep /\ \A k \in 1..(j - 1) : s[k] # sep
         IN <<SubSeq(s, 1, i - 1)>> \o Split(SubSeq(s, i + 1, Len(s)), sep)

StartsWith(s, p) == Len(s) >= Len(p) /\ SubSeq(s, 1, Len(p)) = p

\* sub in s
Contains(s, sub) ==
    \E i \in 0..(Len(s) - Len(sub)) : SubSeq(s, i + 1, i + Len(sub)) = sub

\* s.replace(old, ''): one left-to-right pass over non-overlapping
\* occurrences; what the removals join is not scanned again.
RECURSIVE Remove(_, _)
Remove(s, old) ==
    IF Len(s) < Len(old) THEN s
    ELSE IF StartsWith(s, old) THEN Remove(SubSeq(s, Len(old) + 1, Len(s)), old)
    ELSE <<s[1]>> \o Remove(Tail(s), old)

UpperCase == <<"A","B","C","D","E","F","G","H","I","J","K","L","M",
               "N","O","P","Q","R","S","T","U","V","W","X","Y","Z">>
LowerCase == <<"a","b","c","d","e","f","g","h","i","j","k","l","m",
               "n","o","p","q","r","s","t","u","v","w","x","y","z">>

\* The lower-case letter of each upper-case letter.
ToLower ==
    [c \in {UpperCase[i] : i \in DOMAIN UpperCase} |->
        LowerCase[CHOOSE i \in DOMAIN UpperCase : UpperCase[i] = c]]

LowerChar(c) == IF c \in DOMAIN ToLower THEN ToLower[c] ELSE c

\* s.lower()
Lower(s) == [i \in 1..Len(s) |-> LowerChar(s[i])]

-----------------------------------------------------------------------------
(* Files.  A line is written as its tab-separated fields followed by its   *)
(* terminator; only the last line of a file can lack the terminator.       *)

RECURSIVE Join(_, _)
Join(fields, sep) ==
    IF Len(fields) = 0 THEN <<>>
    ELSE IF Len(fields) = 1 THEN fields[1]
    ELSE fields[1] \o <<sep>> \o Join(Tail(fields), sep)

\* The text the file iterator yields for a written line.
LineText(w) == Join(w.fields, TAB) \o (IF w.nl THEN <<NL>> ELSE <<>>)

MaxLines == 2
MaxExtraFields == 1

RECURSIVE SeqsUpTo(_, _)
SeqsUpTo(S, n) ==
    IF n = 0 THEN {<<>>}
    ELSE LET shorter == SeqsUpTo(S, n - 1)
         IN shorter \cup {Append(s, x) : s \in {t \in shorter : Len(t) = n - 1}, x \in S}

GenomeIdFields == {<<"a">>, <<"b">>}
DirFields == {<<>>, <<"x">>, <<"x", SP>>, <<"y">>}
ExtraFields == {<<>>, <<"z">>}

GenomeDirLineFields ==
    {<<<<>>>>, <<<<"a">>>>}
    \cup {<<g, d>> \o e : g \in GenomeIdFields, d \in DirFields,
                          e \in SeqsUpTo(ExtraFields, MaxExtraFields)}

\* The file iterator never yields an empty string.
GenomeDirLines ==
    {w \in [fields : GenomeDirLineFields, nl : BOOLEAN] : LineText(w) # <<>>}

-----------------------------------------------------------------------------
(* Values of the variables a function does not use.                        *)

IdleFile == written = <<>> /\ eof = FALSE
IdleGD == genome_dirs = EmptyDict
IdleMD ==
    /\ keep_db_prefix = FALSE
    /\ header = <<>>
    /\ rows_read = 0
    /\ bHeader = TRUE
    /\ genome_index = 0
    /\ taxid_index = 0
    /\ assembly_level_index = 0
    /\ refseq_category_index = 0
    /\ row = <<>>
    /\ assembly_accession = <<>>
    /\ accession_to_taxid = EmptyDict
    /\ complete_genomes = {}
    /\ representative_genomes = {}
IdleTS == type_strain_taxids = {}
IdleGT == genome_ids = {} /\ pending = {} /\ type_strains = {}

\* A file opened without `with` and never closed: whether it is closed when
\* control is back in the caller is left to the garbage collector (under
\* reference counting the traceback of an exception keeps csv_reader, and
\* with it the file, alive).
Unreleased == {"open", "closed"}

-----------------------------------------------------------------------------
(* read_genome_dir                                                         *)

GD_Init ==
    /\ fn = "read_genome_dir"
    /\ pc = "loop"
    /\ raised = ""
    /\ handle = "open"
    /\ result = <<>>
    /\ IdleFile /\ IdleGD /\ IdleMD /\ IdleTS /\ IdleGT

\* Variant of GD_Line: a line with fewer than two fields is skipped.
GD_LineSkipping ==
    /\ fn = "read_genome_dir" /\ pc = "loop"
    /\ ~eof /\ Len(written) < MaxLines
    /\ \E w \in GenomeDirLines :
        \E line_split \in {Split(RStrip(LineText(w)), TAB)} :
           /\ written' = Append(written, w)
           /\ eof' = ~w.nl
           /\ genome_dirs' = IF Len(line_split) < 2 THEN genome_dirs
                             ELSE Put(genome_dirs, line_split[1], line_split[2])
    /\ UNCHANGED <<fn, pc, raised, handle, result, mdVars, type_strain_taxids,
                   gtVars>>

\* One iteration of `for line in open(genome_dir_file)`.
GD_Line ==
    /\ fn = "read_genome_dir" /\ pc = "loop"
    /\ ~eof /\ Len(written) < MaxLines
    /\ \E w \in GenomeDirLines :
        \E line_split \in {Split(RStrip(LineText(w)), TAB)} :
           /\ written' = Append(written, w)
           /\ eof' = ~w.nl
           /\ IF Len(line_split) < 2
              THEN /\ pc' = "raised"
                   /\ raised' = "IndexError"
                   /\ handle' \in Unreleased
                   /\ UNCHANGED genome_dirs
              ELSE /\ genome_dirs' = Put(genome_dirs, line_split[1], line_split[2])
                   /\ UNCHANGED <<pc, raised, handle>>
    /\ UNCHANGED <<fn, result, mdVars, type_strain_taxids, gtVars>>

\* The file is exhausted: `return genome_dirs`.
GD_Return ==
    /\ fn = "read_genome_dir" /\ pc = "loop"
    /\ pc' = "returned"
    /\ result' = <<genome_dirs>>
    /\ handle' \in Unreleased
    /\ UNCHANGED <<fn, raised, fileVars, gdVars, mdVars, type_strain_taxids, gtVars>>

GD_Next == GD_Line \/ GD_Return

SpecGenomeDir == GD_Init /\ [][GD_Next]_vars

-----------------------------------------------------------------------------
(* Properties of read_genome_dir, stated on the fields as they were        *)
(* written to the file.                                                    *)

AllWhitespace(f) == \A i \in 1..Len(f) : f[i] \in Whitespace

\* The index of the last field of a written line that holds a character
\* other than whitespace; 0 when the line holds none.
LastSolid(fields) ==
    IF \A i \in 1..Len(fields) : AllWhitespace(fields[i]) THEN 0
    ELSE CHOOSE i \in 1..Len(fields) :
            /\ ~AllWhitespace(fields[i])
            /\ \A j \in (i + 1)..Len(fields) : AllWhitespace(fields[j])

\* A field without the whitespace at its end.
RECURSIVE Trimmed(_)
Trimmed(f) ==
    IF f # <<>> /\ f[Len(f)] \in Whitespace
    THEN Trimmed(SubSeq(f, 1, Len(f) - 1))
    ELSE f

\* The number of tab-separated fields left once the whitespace at the end
\* of the line is gone.
FieldsAfterStrip(w) == IF LastSolid(w.fields) = 0 THEN 1 ELSE LastSolid(w.fields)

ShortLine(w) == FieldsAfterStrip(w) < 2

\* The second field once the whitespace at the end of the line is gone.
SecondAfterStrip(w) ==
    IF LastSolid(w.fields) = 2 THEN Trimmed(w.fields[2]) ELSE w.fields[2]

WrittenIds == {written[i].fields[1] : i \in 1..Len(written)}

LastLineWith(id) ==
    CHOOSE i \in 1..Len(written) :
        /\ written[i].fields[1] = id
        /\ \A j \in (i + 1)..Len(written) : written[j].fields[1] # id

UniqueIds == Cardinality(WrittenIds) = Len(written)

NonEmptyLines ==
    Cardinality({i \in 1..Len(written) : Join(written[i].fields, TAB) # <<>>})

\* C4 (as amended): when read_genome_dir returns, the mapping has exactly
\* one entry per distinct genome id of the file, hence as many entries as
\* the file has non-empty lines when the ids are unique, and looking up an
\* id gives the second tab-separated field that the last line carrying the
\* id has after the whitespace at the end of the line is stripped.
C4_GenomeDirMapping ==
    (fn = "read_genome_dir" /\ pc = "returned") =>
        /\ DOMAIN result[1] = WrittenIds
        /\ UniqueIds => Cardinality(DOMAIN result[1]) = NonEmptyLines
        /\ \A id \in WrittenIds :
              result[1][id] = SecondAfterStrip(written[LastLineWith(id)])

\* Two lines carry the same id with different directories, and the call
\* returned.
C4_Witness ==
    /\ fn = "read_genome_dir" /\ pc = "returned"
    /\ Len(written) = 2
    /\ written[1].fields[1] = written[2].fields[1]
    /\ written[1].fields[2] = <<"x", SP>>
    /\ written[2].fields = <<<<"a">>, <<"y">>, <<"z">>>>

\* C4 (as stated): looking up an id gives the exact second field written
\* on the last line carrying the id.
C4_ExactSecondField ==
    (fn = "read_genome_dir" /\ pc = "returned") =>
        \A id \in WrittenIds :
            result[1][id] = written[LastLineWith(id)].fields[2]

\* C6: a line with fewer than two tab-separated fields after stripping is
\* the line the call fails at, with an indexing error, and nothing is
\* returned.
C6_ShortLineFails ==
    fn = "read_genome_dir" =>
        \A i \in 1..Len(written) :
            ShortLine(written[i]) =>
                /\ i = Len(written)
                /\ pc = "raised" /\ raised = "IndexError"
                /\ result = <<>>

\* The second line is short, after a first line that built an entry.
C6_Witness ==
    /\ fn = "read_genome_dir" /\ pc = "raised"
    /\ Len(written) = 2
    /\ ShortLine(written[2])
    /\ Len(written[2].fields) = 2
    /\ genome_dirs # EmptyDict
    /\ result = <<>>

\* C9: when control is back in the caller, the file the reader opened is
\* closed.
C9_HandleReleased ==
    pc \in {"returned", "raised"} => handle = "closed"

-----------------------------------------------------------------------------
(* read_refseq_metadata.  The csv reader yields each row as a list of      *)
(* cells.  Positions are counted from 1 here: genome_index is the Python   *)
(* index plus one, and 0 stands for a name that is not yet bound.          *)

RS_ == <<"R", "S", "_">>
GB_ == <<"G", "B", "_">>
CompleteGenome ==
    <<"c","o","m","p","l","e","t","e"," ","g","e","n","o","m","e">>
Reference == <<"r","e","f","e","r","e","n","c","e">>
Representative ==
    <<"r","e","p","r","e","s","e","n","t","a","t","i","v","e">>

MaxRows == 2

\* The header rows tried: the four columns in order, reordered around a
\* column the reader does not use, each with one required column missing,
\* and a blank first line.
Headers ==
    { <<"genome", "ncbi_taxid", "ncbi_assembly_level", "ncbi_refseq_category">>,
      <<"ncbi_refseq_category", "organism_name", "ncbi_taxid", "genome",
        "ncbi_assembly_level">>,
      <<"ncbi_taxid", "ncbi_assembly_level", "ncbi_refseq_category">>,
      <<"genome", "ncbi_assembly_level", "ncbi_refseq_category">>,
      <<"genome", "ncbi_taxid", "ncbi_refseq_category">>,
      <<"genome", "ncbi_taxid", "ncbi_assembly_level">>,
      <<>> }

\* row.index(name), plus one; 0 where Python raises ValueError.
Index(r, name) ==
    IF \E i \in 1..Len(r) : r[i] = name
    THEN CHOOSE i \in 1..Len(r) : r[i] = name /\ \A j \in 1..(i - 1) : r[j] # name
    ELSE 0

Accessions ==
    { <<"R","S","_","a">>,
      <<"R","S","_","G","B","_","a">>,
      <<"R","S","_","R","R","S","_","S","_">>,
      <<"G","B","_","a">> }
Taxids == {<<"1">>, <<"2">>}
AssemblyLevels ==
    { <<"C","o","m","p","l","e","t","e"," ","G","e","n","o","m","e">>,
      <<"C","O","M","P","L","E","T","E"," ","G","E","N","O","M","E">>,
      CompleteGenome,
      <<"C","o","n","t","i","g">> }
RefseqCategories ==
    { <<"r","e","p","r","e","s","e","n","t","a","t","i","v","e"," ",
        "g","e","n","o","m","e">>,
      <<"R","e","f","e","r","e","n","c","e"," ","G","e","n","o","m","e">>,
      <<"n","a">> }

Cells == [genome : Accessions, taxid : Taxids, level : AssemblyLevels,
          category : RefseqCategories]

\* The cells of a data row, laid out under the header h.
Layout(h, c) ==
    [i \in 1..Len(h) |->
        IF h[i] = "genome" THEN c.genome
        ELSE IF h[i] = "ncbi_taxid" THEN c.taxid
        ELSE IF h[i] = "ncbi_assembly_level" THEN c.level
        ELSE IF h[i] = "ncbi_refseq_category" THEN c.category
        ELSE <<"-">>]

\* The data rows tried under each header: complete rows, and rows cut
\* short (a blank line is the row with no cell).
DataRows ==
    [h \in Headers |-> {SubSeq(Layout(h, c), 1, n) : c \in Cells, n \in 0..Len(h)}]

\* Variant of HeaderOutcome: a missing column falls back to the first one
\* instead of ending the call.
HeaderOutcomeLenient(h) ==
    LET at(name) == IF Index(h, name) = 0 THEN 1 ELSE Index(h, name)
    IN [err |-> "", genome |-> at("genome"), taxid |-> at("ncbi_taxid"),
        level |-> at("ncbi_assembly_level"),
        category |-> at("ncbi_refseq_category")]

\* The header branch of the loop body: the four lookups in order, the
\* first missing name ending the call.
HeaderOutcome(h) ==
    LET gi == Index(h, "genome")
        ti == Index(h, "ncbi_taxid")
        li == Index(h, "ncbi_assembly_level")
        ci == Index(h, "ncbi_refseq_category")
        bound == [err |-> "", genome |-> genome_index, taxid |-> taxid_index,
                  level |-> assembly_level_index,
                  category |-> refseq_category_index]
    IN IF gi = 0 THEN [bound EXCEPT !.err = "ValueError"]
       ELSE IF ti = 0 THEN [bound EXCEPT !.err = "ValueError", !.genome = gi]
       ELSE IF li = 0
            THEN [bound EXCEPT !.err = "ValueError", !.genome = gi, !.taxid = ti]
       ELSE IF ci = 0
            THEN [bound EXCEPT !.err = "ValueError", !.genome = gi, !.taxid = ti,
                               !.level = li]
       ELSE [err |-> "", genome |-> gi, taxid |-> ti, level |-> li,
             category |-> ci]

\* Variant of IsRefSeq: rows of either database pass the filter.
IsRefSeqOrGenBank(acc) == StartsWith(acc, RS_) \/ StartsWith(acc, GB_)

\* assembly_accession.startswith('RS_')
IsRefSeq(acc) == StartsWith(acc, RS_)

\* The key of a row that passed the filter.
AccessionKey(acc, keep) ==
    IF keep THEN acc ELSE Remove(Remove(acc, RS_), GB_)

\* Variant of IsComplete: the comparison without .lower().
IsCompleteCaseSensitive(level) == level = CompleteGenome

\* assembly_level == 'complete genome', after .lower()
IsComplete(level) == Lower(level) = CompleteGenome

\* 'reference' in refseq_category or 'representative' in refseq_category,
\* after .lower()
IsRepresentative(category) ==
    \/ Contains(Lower(category), Reference)
    \/ Contains(Lower(category), Representative)

\* The else branch of the loop body on row r, statement by statement: what
\* the locals hold when the body ends or when an index is out of range.
RowOutcome(r) ==
    LET before == [err |-> "", key |-> assembly_accession,
                   taxids |-> accession_to_taxid,
                   complete |-> complete_genomes,
                   representative |-> representative_genomes]
    IN IF Len(r) < genome_index THEN [before EXCEPT !.err = "IndexError"]
       ELSE IF ~IsRefSeq(r[genome_index])
            THEN [before EXCEPT !.key = r[genome_index]]
       ELSE
         LET key == AccessionKey(r[genome_index], keep_db_prefix)
             s1 == [before EXCEPT !.key = key]
         IN IF Len(r) < taxid_index THEN [s1 EXCEPT !.err = "IndexError"]
            ELSE
              LET s2 == [s1 EXCEPT !.taxids = Put(accession_to_taxid, key,
                                                  r[taxid_index])]
              IN IF Len(r) < assembly_level_index
                 THEN [s2 EXCEPT !.err = "IndexError"]
                 ELSE
                   LET s3 == IF IsComplete(r[assembly_level_index])
                             THEN [s2 EXCEPT !.complete = complete_genomes \cup {key}]
                             ELSE s2
                   IN IF Len(r) < refseq_category_index
                      THEN [s3 EXCEPT !.err = "IndexError"]
                      ELSE IF IsRepresentative(r[refseq_category_index])
                           THEN [s3 EXCEPT !.representative =
                                              representative_genomes \cup {key}]
                           ELSE s3

MD_Init ==
    /\ fn = "read_refseq_metadata"
    /\ pc = "loop"
    /\ raised = ""
    /\ handle = "open"
    /\ result = <<>>
    /\ keep_db_prefix \in BOOLEAN
    /\ header = <<>>
    /\ rows_read = 0
    /\ bHeader = TRUE
    /\ genome_index = 0
    /\ taxid_index = 0
    /\ assembly_level_index = 0
    /\ refseq_category_index = 0
    /\ row = <<>>
    /\ assembly_accession = <<>>
    /\ accession_to_taxid = EmptyDict
    /\ complete_genomes = {}
    /\ representative_genomes = {}
    /\ IdleFile /\ IdleGD /\ IdleTS /\ IdleGT

\* The first iteration of `for row in csv_reader`: bHeader is set.
MD_Header ==
    /\ fn = "read_refseq_metadata" /\ pc = "loop" /\ bHeader
    /\ \E h \in Headers :
        \E o \in {HeaderOutcome(h)} :
           /\ header' = <<h>>
           /\ row' = h
           /\ genome_index' = o.genome
           /\ taxid_index' = o.taxid
           /\ assembly_level_index' = o.level
           /\ refseq_category_index' = o.category
           /\ IF o.err # ""
              THEN /\ pc' = "raised"
                   /\ raised' = o.err
                   /\ handle' \in Unreleased
                   /\ UNCHANGED bHeader
              ELSE /\ bHeader' = FALSE
                   /\ UNCHANGED <<pc, raised, handle>>
    /\ UNCHANGED <<fn, result, fileVars, gdVars, keep_db_prefix, rows_read,
                   assembly_accession, accession_to_taxid, complete_genomes,
                   representative_genomes, type_strain_taxids, gtVars>>

\* A later iteration: the else branch.
MD_Row ==
    /\ fn = "read_refseq_metadata" /\ pc = "loop" /\ ~bHeader
    /\ rows_read < MaxRows
    /\ \E r \in DataRows[header[1]] :
        \E o \in {RowOutcome(r)} :
           /\ row' = r
           /\ rows_read' = rows_read + 1
           /\ assembly_accession' = o.key
           /\ accession_to_taxid' = o.taxids
           /\ complete_genomes' = o.complete
           /\ representative_genomes' = o.representative
           /\ IF o.err # ""
              THEN /\ pc' = "raised"
                   /\ raised' = o.err
                   /\ handle' \in Unreleased
              ELSE UNCHANGED <<pc, raised, handle>>
    /\ UNCHANGED <<fn, result, fileVars, gdVars, keep_db_prefix, header, bHeader,
                   genome_index, taxid_index, assembly_level_index,
                   refseq_category_index, type_strain_taxids, gtVars>>

\* The reader is exhausted: the three structures are returned.
MD_Return ==
    /\ fn = "read_refseq_metadata" /\ pc = "loop"
    /\ pc' = "returned"
    /\ result' = <<<<accession_to_taxid, complete_genomes,
                     representative_genomes>>>>
    /\ handle' \in Unreleased
    /\ UNCHANGED <<fn, raised, fileVars, gdVars, mdVars, type_strain_taxids,
                   gtVars>>

MD_Next == MD_Header \/ MD_Row \/ MD_Return

SpecMetadata == MD_Init /\ [][MD_Next]_vars

-----------------------------------------------------------------------------
(* Properties of read_refseq_metadata.                                     *)

\* This step read a data row.
RowStep == fn = "read_refseq_metadata" /\ rows_read' = rows_read + 1

HasPrefixRS(s) == Len(s) >= 3 /\ s[1] = "R" /\ s[2] = "S" /\ s[3] = "_"

\* The cell is within the row that was read.
Reached(r, index) == Len(r) >= index

\* C2: a data row whose genome value does not start with RS_ leaves the
\* three structures as they were, whatever keep_db_prefix is.
C2_NonRefSeqRowIgnored ==
    [][(/\ RowStep
        /\ Reached(row', genome_index)
        /\ ~HasPrefixRS(row'[genome_index]))
       => /\ accession_to_taxid' = accession_to_taxid
          /\ complete_genomes' = complete_genomes
          /\ representative_genomes' = representative_genomes]_vars

\* A GenBank row was read after a row that was kept.
C2_Witness ==
    /\ fn = "read_refseq_metadata" /\ pc = "loop"
    /\ rows_read = 2
    /\ Reached(row, genome_index)
    /\ row[genome_index] = <<"G","B","_","a">>
    /\ DOMAIN accession_to_taxid # {}
    /\ complete_genomes # {}

\* C3: with keep_db_prefix=False no key of the returned mapping and no
\* member of the returned sets contains RS_ or GB_.
C3_NoPrefixInKeys ==
    (fn = "read_refseq_metadata" /\ pc = "returned" /\ ~keep_db_prefix) =>
        \A k \in DOMAIN result[1][1] \cup result[1][2] \cup result[1][3] :
            ~Contains(k, RS_) /\ ~Contains(k, GB_)

RequiredColumns ==
    {"genome", "ncbi_taxid", "ncbi_assembly_level", "ncbi_refseq_category"}

LacksColumn(h) == \E c \in RequiredColumns : \A i \in 1..Len(h) : h[i] # c

\* C5: a header row that lacks a required column ends the call with the
\* missing-column error before any data row is read: no row was read, the
\* three structures are empty and nothing is returned.
C5_MissingColumnFailsFirst ==
    (fn = "read_refseq_metadata" /\ header # <<>> /\ LacksColumn(header[1])) =>
        /\ pc = "raised" /\ raised = "ValueError"
        /\ rows_read = 0
        /\ accession_to_taxid = EmptyDict
        /\ complete_genomes = {}
        /\ representative_genomes = {}
        /\ result = <<>>

\* The header without ncbi_taxid was read.
C5_Witness ==
    /\ fn = "read_refseq_metadata" /\ pc = "raised"
    /\ header = <<<<"genome", "ncbi_assembly_level", "ncbi_refseq_category">>>>

SameLetter(a, b) ==
    a = b \/ \E i \in DOMAIN UpperCase : {a, b} = {UpperCase[i], LowerCase[i]}

EqualsIgnoringCase(s, t) ==
    Len(s) = Len(t) /\ \A i \in 1..Len(s) : SameLetter(s[i], t[i])

ContainsIgnoringCase(s, sub) ==
    \E i \in 0..(Len(s) - Len(sub)) :
        EqualsIgnoringCase(SubSeq(s, i + 1, i + Len(sub)), sub)

\* C7: for an RS_ row, the key is added to complete_genomes exactly when
\* the assembly level is "complete genome" up to letter case, and to
\* representative_genomes exactly when the RefSeq category contains
\* "reference" or "representative" up to letter case.
C7_CaseInsensitiveClassification ==
    [][(/\ RowStep
        /\ Reached(row', genome_index)
        /\ HasPrefixRS(row'[genome_index])
        /\ Reached(row', taxid_index)
        /\ Reached(row', assembly_level_index))
       => /\ complete_genomes' =
                IF EqualsIgnoringCase(row'[assembly_level_index], CompleteGenome)
                THEN complete_genomes \cup {assembly_accession'}
                ELSE complete_genomes
          /\ Reached(row', refseq_category_index) =>
                representative_genomes' =
                    IF \/ ContainsIgnoringCase(row'[refseq_category_index], Reference)
                       \/ ContainsIgnoringCase(row'[refseq_category_index],
                                               Representative)
                    THEN representative_genomes \cup {assembly_accession'}
                    ELSE representative_genomes]_vars

\* An upper-case "COMPLETE GENOME" row with category "Reference Genome"
\* was classified into both sets.
C7_Witness ==
    /\ fn = "read_refseq_metadata" /\ pc = "loop" /\ rows_read = 1
    /\ Len(row) = Len(header[1])
    /\ row[assembly_level_index] =
          <<"C","O","M","P","L","E","T","E"," ","G","E","N","O","M","E">>
    /\ row[refseq_category_index] =
          <<"R","e","f","e","r","e","n","c","e"," ","G","e","n","o","m","e">>
    /\ assembly_accession \in complete_genomes
    /\ assembly_accession \in representative_genomes

\* C10: the two sets stay within the keys of accession_to_taxid, in the
\* locals after every row and in what is returned; a row that is kept
\* sets its key to its own taxonomy id and changes no other key, and no
\* row removes a member of either set.
C10_SetsWithinKeys ==
    /\ [](fn = "read_refseq_metadata" =>
            /\ complete_genomes \subseteq DOMAIN accession_to_taxid
            /\ representative_genomes \subseteq DOMAIN accession_to_taxid
            /\ pc = "returned" =>
                  /\ result[1][2] \subseteq DOMAIN result[1][1]
                  /\ result[1][3] \subseteq DOMAIN result[1][1])
    /\ [][RowStep =>
            /\ complete_genomes \subseteq complete_genomes'
            /\ representative_genomes \subseteq representative_genomes'
            /\ DOMAIN accession_to_taxid \subseteq DOMAIN accession_to_taxid'
            /\ (/\ Reached(row', genome_index)
                /\ HasPrefixRS(row'[genome_index])
                /\ Reached(row', taxid_index))
               => /\ accession_to_taxid'[assembly_accession'] = row'[taxid_index]
                  /\ \A k \in DOMAIN accession_to_taxid \ {assembly_accession'} :
                        accession_to_taxid'[k] = accession_to_taxid[k]]_vars

\* A second row for a key that is already a complete genome: the row is
\* a contig with another taxonomy id, the key stays in complete_genomes
\* and maps to the second row's id.  The two rows differ in their genome
\* value (RS_a, then RS_GB_a).
C10_Witness ==
    /\ fn = "read_refseq_metadata" /\ pc = "loop" /\ rows_read = 2
    /\ ~keep_db_prefix
    /\ Len(row) = Len(header[1])
    /\ row[genome_index] = <<"R","S","_","G","B","_","a">>
    /\ row[assembly_level_index] = <<"C","o","n","t","i","g">>
    /\ row[taxid_index] = <<"2">>
    /\ assembly_accession = <<"a">>
    /\ assembly_accession \in complete_genomes
    /\ accession_to_taxid[assembly_accession] = <<"2">>

-----------------------------------------------------------------------------
(* read_type_strains                                                       *)

MaxTypeStrainLines == 3

TaxidFields == {<<>>, <<"1">>, <<"2">>, <<"1", SP>>}
OtherFields == {<<>>, <<"x">>}

TypeStrainLines ==
    {w \in [fields : {<<t>> : t \in TaxidFields}
                     \cup {<<t, o>> : t \in TaxidFields, o \in OtherFields},
            nl : BOOLEAN] : LineText(w) # <<>>}

\* Variant of FirstField: the line is stripped before it is split.
FirstFieldStripped(line) == Split(RStrip(line), TAB)[1]

\* line.split('\t')[0]
FirstField(line) == Split(line, TAB)[1]

TS_Init ==
    /\ fn = "read_type_strains"
    /\ pc = "loop"
    /\ raised = ""
    /\ handle = "open"
    /\ result = <<>>
    /\ type_strain_taxids = {}
    /\ IdleFile /\ IdleGD /\ IdleMD /\ IdleGT

\* One iteration of `for line in f`.
TS_Line ==
    /\ fn = "read_type_strains" /\ pc = "loop"
    /\ ~eof /\ Len(written) < MaxTypeStrainLines
    /\ \E w \in TypeStrainLines :
        /\ written' = Append(written, w)
        /\ eof' = ~w.nl
        /\ type_strain_taxids' = type_strain_taxids \cup {FirstField(LineText(w))}
    /\ UNCHANGED <<fn, pc, raised, handle, result, gdVars, mdVars, gtVars>>

\* The file is exhausted: the with block closes it, then the set is
\* returned.
TS_Return ==
    /\ fn = "read_type_strains" /\ pc = "loop"
    /\ pc' = "returned"
    /\ handle' = "closed"
    /\ result' = <<type_strain_taxids>>
    /\ UNCHANGED <<fn, raised, fileVars, gdVars, mdVars, type_strain_taxids,
                   gtVars>>

TS_Next == TS_Line \/ TS_Return

SpecTypeStrains == TS_Init /\ [][TS_Next]_vars

\* What a written line gives: the text before its first tab, or all of it,
\* terminator included, when it has no tab.
Contribution(w) ==
    IF Len(w.fields) > 1 THEN w.fields[1]
    ELSE w.fields[1] \o (IF w.nl THEN <<NL>> ELSE <<>>)

\* C8: read_type_strains returns exactly the set of the untrimmed first
\* tab-delimited fields of the lines: the text before the first tab, or
\* the whole line with its terminator when it has no tab; an identifier on
\* several lines appears once.
C8_FirstFieldsUntrimmed ==
    (fn = "read_type_strains" /\ pc = "returned") =>
        result[1] = {Contribution(written[i]) : i \in 1..Len(written)}

\* Three lines were read, two of them with the identifier 1 before a tab
\* and one holding 1 alone.
C8_Witness ==
    /\ fn = "read_type_strains" /\ pc = "returned"
    /\ Len(written) = 3
    /\ written[1].fields = <<<<"1">>>>
    /\ Len(written[2].fields) = 2 /\ Len(written[3].fields) = 2
    /\ result[1] = {<<"1", NL>>, <<"1">>}

-----------------------------------------------------------------------------
(* get_type_strains.  Its arguments are any set of genome ids, any mapping *)
(* from some of them to taxonomy ids, and any set of taxonomy ids, which   *)
(* may hold the sentinel.                                                  *)

NumGenomes == 3
MaxTaxid == 2
Sentinel == -1

GenomeNames == <<"A", "B", "C", "D", "E">>
Genomes == {GenomeNames[i] : i \in 1..NumGenomes}
TaxidValues == 1..MaxTaxid

Mappings == UNION {[ks -> TaxidValues] : ks \in SUBSET Genomes}

\* Variant of Get: the default is dropped, a missing key gives a value that
\* is no taxonomy id and not the sentinel.
GetWithoutDefault(d, k, default) == IF k \in DOMAIN d THEN d[k] ELSE 0

\* d.get(k, default)
Get(d, k, default) == IF k \in DOMAIN d THEN d[k] ELSE default

GT_Init ==
    /\ fn = "get_type_strains"
    /\ pc = "loop"
    /\ raised = ""
    /\ handle = "none"
    /\ result = <<>>
    /\ genome_ids \in SUBSET Genomes
    /\ pending = genome_ids
    /\ type_strains = {}
    /\ type_strain_taxids \in SUBSET (TaxidValues \cup {Sentinel})
    /\ IdleFile /\ IdleGD
    /\ keep_db_prefix = FALSE
    /\ header = <<>>
    /\ rows_read = 0
    /\ bHeader = TRUE
    /\ genome_index = 0
    /\ taxid_index = 0
    /\ assembly_level_index = 0
    /\ refseq_category_index = 0
    /\ row = <<>>
    /\ assembly_accession = <<>>
    /\ accession_to_taxid \in Mappings
    /\ complete_genomes = {}
    /\ representative_genomes = {}

\* One iteration of `for genome_id in genome_ids`, in any order.
GT_Iterate ==
    /\ fn = "get_type_strains" /\ pc = "loop"
    /\ \E genome_id \in pending :
        \E taxid \in {Get(accession_to_taxid, genome_id, Sentinel)} :
           /\ pending' = pending \ {genome_id}
           /\ type_strains' = IF taxid \in type_strain_taxids
                              THEN type_strains \cup {genome_id}
                              ELSE type_strains
    /\ UNCHANGED <<fn, pc, raised, handle, result, fileVars, gdVars, mdVars,
                   type_strain_taxids, genome_ids>>

\* Every genome id was visited: `return type_strains`.
GT_Return ==
    /\ fn = "get_type_strains" /\ pc = "loop"
    /\ pending = {}
    /\ pc' = "returned"
    /\ result' = <<type_strains>>
    /\ UNCHANGED <<fn, raised, handle, fileVars, gdVars, mdVars,
                   type_strain_taxids, gtVars>>

GT_Next == GT_Iterate \/ GT_Return

SpecTypeStrainMatch == GT_Init /\ [][GT_Next]_vars

\* C1: get_type_strains never fails and returns exactly the genome ids of
\* genome_ids whose taxonomy id, or -1 when the mapping has none, is in
\* type_strain_taxids; an id the mapping lacks is left out whenever -1 is
\* not in type_strain_taxids.
C1_TypeStrainSubset ==
    fn = "get_type_strains" =>
        /\ pc # "raised"
        /\ pc = "returned" =>
              /\ result[1] =
                    {g \in genome_ids :
                        \/ g \in DOMAIN accession_to_taxid
                           /\ accession_to_taxid[g] \in type_strain_taxids
                        \/ g \notin DOMAIN accession_to_taxid
                           /\ -1 \in type_strain_taxids}
              /\ -1 \notin type_strain_taxids =>
                    \A g \in genome_ids \ DOMAIN accession_to_taxid :
                        g \notin result[1]

\* The example of the specification: {A, B, C}, {A: 1, B: 2} and {1}
\* give {A}.
C1_Witness ==
    /\ fn = "get_type_strains" /\ pc = "returned"
    /\ genome_ids = {"A", "B", "C"}
    /\ DOMAIN accession_to_taxid = {"A", "B"}
    /\ accession_to_taxid["A"] = 1 /\ accession_to_taxid["B"] = 2
    /\ type_strain_taxids = {1}
    /\ result = <<{"A"}>>

=============================================================================
